---- MODULE Spec2Model ----
(***************************************************************************)
(* Contact & social-link discovery of YT-Channel-Finder-2.                 *)
(*                                                                         *)
(* The repository holds several drafts of the same extraction routine:     *)
(*   "enhanced" : src/unnamed/part_000:81-236 (the same text is repeated   *)
(*                in src/api/scrape-about.js:77-233)                        *)
(*   "server1"  : src/server.js:29-155                                     *)
(*   "server2"  : src/server.js:253-344                                    *)
(*   "handler"  : src/api/scrape-about.js:30-64                            *)
(* Each run of the model picks one draft (impl) and one page, then walks   *)
(* through the steps of that draft's extraction.  SpecRuns calls the       *)
(* extraction several times in a row; SpecServe serves two requests of     *)
(* app.get("/api/scrape-about") (src/unnamed/part_000:239-386) at once.    *)
(*                                                                         *)
(* Strings are TLA+ strings; a character is a string of length one.        *)
(***************************************************************************)
EXTENDS Integers, Sequences, FiniteSets, TLC

(***************************************************************************)
(* Bounds of the explored inputs.                                          *)
(***************************************************************************)
MaxItems == 3
MaxTokens == 2
MaxCaptions == 1
MaxHostLinks == 2
MaxRuns == 3
MaxVideos == 2

(***************************************************************************)
(* JavaScript strings.                                                     *)
(***************************************************************************)
Chars(s) == {SubSeq(s, i, i) : i \in 1..Len(s)}

UpperChars == "ABCDEFGHIJKLMNOPQRSTUVWXYZ"
LowerChars == "abcdefghijklmnopqrstuvwxyz"
DigitChars == "0123456789"

UpperSet == Chars(UpperChars)
DigitSet == Chars(DigitChars)
AlphaSet == Chars(UpperChars) \cup Chars(LowerChars)
LowerMap == [c \in UpperSet |->
               LET i == CHOOSE k \in 1..26 : SubSeq(UpperChars, k, k) = c
               IN  SubSeq(LowerChars, i, i)]

IsAlpha(c) == c \in AlphaSet

\* String.prototype.includes
Includes(s, t) ==
  \E i \in 1..(Len(s) - Len(t) + 1) : SubSeq(s, i, i + Len(t) - 1) = t

\* String.prototype.startsWith, the ^= attribute selector
StartsWith(s, t) == Len(s) >= Len(t) /\ SubSeq(s, 1, Len(t)) = t

LowerChar(c) == IF c \in UpperSet THEN LowerMap[c] ELSE c

\* String.prototype.toLowerCase (ASCII)
RECURSIVE ToLowerCase(_)
ToLowerCase(s) ==
  IF s = "" THEN "" ELSE LowerChar(Head(s)) \o ToLowerCase(Tail(s))

\* first index >= i whose character is not in class, Len(s)+1 when there is none
RECURSIVE RunEnd(_, _, _)
RunEnd(s, i, class) ==
  IF i > Len(s) \/ SubSeq(s, i, i) \notin class THEN i
  ELSE RunEnd(s, i + 1, class)

\* first index >= i whose character is in class, Len(s)+1 when there is none
RECURSIVE FindFirst(_, _, _)
FindFirst(s, i, class) ==
  IF i > Len(s) \/ SubSeq(s, i, i) \in class THEN i
  ELSE FindFirst(s, i + 1, class)

(***************************************************************************)
(* JavaScript values that travel through the link lists: a value has a     *)
(* type tag t and its string conversion s (String(v)).                      *)
(***************************************************************************)
Str(s) == [t |-> "str", s |-> s]
Num(s) == [t |-> "num", s |-> s]
Null == [t |-> "null", s |-> "null"]

\* Boolean(v), as used by filter(Boolean) and by if (o.sameAs)
Truthy(v) ==
  /\ v.t # "null"
  /\ ~(v.t = "str" /\ v.s = "")
  /\ ~(v.t = "num" /\ v.s = "0")

RECURSIVE FilterBoolean(_)
FilterBoolean(arr) ==
  IF arr = <<>> THEN <<>>
  ELSE (IF Truthy(Head(arr)) THEN <<Head(arr)>> ELSE <<>>) \o FilterBoolean(Tail(arr))

InSeq(x, arr) == \E i \in 1..Len(arr) : arr[i] = x

\* [...new Set(xs)]: one copy of every value, in order of first insertion
RECURSIVE SetOrder(_, _)
SetOrder(arr, seen) ==
  IF arr = <<>> THEN seen
  ELSE SetOrder(Tail(arr), IF InSeq(Head(arr), seen) THEN seen ELSE Append(seen, Head(arr)))

\* uniq without the Set: falsy entries removed, repeats kept
uniqNoSet(arr) == FilterBoolean(arr)

\* const uniq = arr => [...new Set(arr.filter(Boolean))]
uniq(arr) == SetOrder(FilterBoolean(arr), <<>>)

(***************************************************************************)
(* new URL(href) without a base: the part of the URL parser that decides   *)
(* whether parsing succeeds and what url.hostname is.                      *)
(***************************************************************************)
SchemeCharSet == AlphaSet \cup DigitSet \cup {"+", "-", "."}
SpecialSchemes == {"http", "https", "ws", "wss", "ftp"}
ForbiddenHostChars == {" ", "<", ">", "[", "]", "^", "|"}
ForbiddenDomainChars == ForbiddenHostChars \cup {"%"}

\* leading and trailing spaces are stripped before parsing
RECURSIVE TrimSpaces(_)
TrimSpaces(s) ==
  IF s = "" THEN ""
  ELSE IF Head(s) = " " THEN TrimSpaces(Tail(s))
  ELSE IF SubSeq(s, Len(s), Len(s)) = " " THEN TrimSpaces(SubSeq(s, 1, Len(s) - 1))
  ELSE s

\* index of the ":" that ends the scheme, 0 when the string has no scheme
SchemeEnd(s) ==
  IF s # "" /\ IsAlpha(Head(s))
  THEN LET e == RunEnd(s, 2, SchemeCharSet)
       IN  IF e <= Len(s) /\ SubSeq(s, e, e) = ":" THEN e ELSE 0
  ELSE 0

\* index of the last occurrence of character c in s, 0 when there is none
LastIndexOf(s, c) ==
  IF \E i \in 1..Len(s) : SubSeq(s, i, i) = c
  THEN CHOOSE i \in 1..Len(s) :
         /\ SubSeq(s, i, i) = c
         /\ \A j \in (i + 1)..Len(s) : SubSeq(s, j, j) # c
  ELSE 0

URLFailure == [ok |-> FALSE, hostname |-> ""]

\* host and port of an authority; special tells a domain from an opaque host
ParseAuthority(authority, special) ==
  LET at       == LastIndexOf(authority, "@")
      hostport == SubSeq(authority, at + 1, Len(authority))
      colon    == FindFirst(hostport, 1, {":"})
      host     == SubSeq(hostport, 1, colon - 1)
      port     == SubSeq(hostport, colon + 1, Len(hostport))
  IN  IF special /\ host = "" THEN URLFailure
      ELSE IF at > 0 /\ host = "" THEN URLFailure
      ELSE IF Chars(host) \cap (IF special THEN ForbiddenDomainChars ELSE ForbiddenHostChars) # {}
           THEN URLFailure
      ELSE IF ~(Chars(port) \subseteq DigitSet) THEN URLFailure
      ELSE [ok |-> TRUE, hostname |-> IF special THEN ToLowerCase(host) ELSE host]

URLParse(input) ==
  LET s == TrimSpaces(input)
      e == SchemeEnd(s)
  IN  IF e = 0 THEN URLFailure
      ELSE LET scheme == ToLowerCase(SubSeq(s, 1, e - 1))
           IN  IF scheme \in SpecialSchemes
               THEN LET a  == RunEnd(s, e + 1, {"/", "\\"})
                        ae == FindFirst(s, a, {"/", "\\", "?", "#"})
                    IN  ParseAuthority(SubSeq(s, a, ae - 1), TRUE)
               ELSE IF SubSeq(s, e + 1, e + 2) = "//"
               THEN LET ae == FindFirst(s, e + 3, {"/", "?", "#"})
                    IN  ParseAuthority(SubSeq(s, e + 3, ae - 1), FALSE)
               ELSE [ok |-> TRUE, hostname |-> ""]

\* url.hostname.replace(/^www\./, "").toLowerCase()
StripWww(h) == IF StartsWith(h, "www.") THEN SubSeq(h, 5, Len(h)) ELSE h
HostOf(hostname) == ToLowerCase(StripWww(hostname))

(***************************************************************************)
(* classify: the ordered platform tables of the three drafts.  A rule      *)
(* matches a host that includes one of inc or equals one of eq.            *)
(***************************************************************************)
Rule(label, inc, eq) == [label |-> label, inc |-> inc, eq |-> eq]
RuleMatches(r, host) ==
  \/ \E p \in r.inc : Includes(host, p)
  \/ host \in r.eq

PlatformRules ==
  << Rule("instagram", {"instagram.com"}, {"instagr.am"}),
     Rule("twitter", {"twitter.com"}, {"x.com"}),
     Rule("facebook", {"facebook.com"}, {"fb.com", "fb.me"}),
     Rule("tiktok", {"tiktok.com"}, {}),
     Rule("linkedin", {"linkedin.com"}, {}),
     Rule("patreon", {"patreon.com"}, {}),
     Rule("kofi", {"ko-fi.com"}, {}),
     Rule("buymeacoffee", {"buymeacoffee.com"}, {}),
     Rule("discord", {"discord.gg", "discord.com"}, {}),
     Rule("twitch", {"twitch.tv"}, {}),
     Rule("reddit", {"reddit.com"}, {}),
     Rule("pinterest", {"pinterest.com"}, {}),
     Rule("snapchat", {"snapchat.com"}, {}),
     Rule("threads", {"threads.net"}, {}),
     Rule("onlyfans", {"onlyfans.com"}, {}),
     Rule("substack", {"substack.com"}, {}),
     Rule("medium", {"medium.com"}, {}),
     Rule("github", {"github.com"}, {}),
     Rule("telegram", {"telegram.me"}, {"t.me"}) >>

IgnoreRule ==
  Rule("ignore", {"youtube.com", "youtu.be", "ytimg.com", "googleusercontent.com", "ggpht.com"}, {})

PlatformRulesServer1 ==
  << Rule("instagram", {"instagram.com"}, {}),
     Rule("twitter", {"twitter.com", "x.com"}, {}),
     Rule("facebook", {"facebook.com"}, {}),
     Rule("tiktok", {"tiktok.com"}, {}),
     Rule("linkedin", {"linkedin.com"}, {}),
     Rule("patreon", {"patreon.com"}, {}),
     Rule("discord", {"discord.gg", "discord.com"}, {}),
     Rule("twitch", {"twitch.tv"}, {}) >>

PlatformRulesServer2 ==
  << Rule("instagram", {"instagram.com"}, {}),
     Rule("twitter", {"twitter.com", "x.com"}, {}),
     Rule("facebook", {"facebook.com"}, {}),
     Rule("tiktok", {"tiktok.com"}, {}),
     Rule("linkedin", {"linkedin.com"}, {}),
     Rule("patreon", {"patreon.com"}, {}),
     Rule("kofi", {"ko-fi.com", "kofi.com"}, {}),
     Rule("discord", {"discord.gg", "discord.com"}, {}),
     Rule("twitch", {"twitch.tv"}, {}) >>

IgnoreRuleServer ==
  Rule("ignore", {"youtube.com", "youtu.be", "ytimg.com", "googleusercontent.com"}, {})

\* the label of the first rule of the table that matches, then the ignore
\* rule, then "website"
FirstMatch(rules, ignore, host) ==
  IF \E i \in 1..Len(rules) : RuleMatches(rules[i], host)
  THEN rules[CHOOSE i \in 1..Len(rules) :
               /\ RuleMatches(rules[i], host)
               /\ \A j \in 1..(i - 1) : ~RuleMatches(rules[j], host)].label
  ELSE IF RuleMatches(ignore, host) THEN "ignore"
  ELSE "website"

\* classify whose catch branch returns "ignore"
classifyWithFailureIgnored(rules, ignore, href) ==
  LET url == URLParse(href.s)
  IN  IF ~url.ok THEN "ignore"
      ELSE FirstMatch(rules, ignore, HostOf(url.hostname))

\* classify(href) with a given table; a URL that fails to parse is "other"
classifyWith(rules, ignore, href) ==
  LET url == URLParse(href.s)
  IN  IF ~url.ok THEN "other"
      ELSE FirstMatch(rules, ignore, HostOf(url.hostname))

classify(href) == classifyWith(PlatformRules, IgnoreRule, href)
classifyServer1(href) == classifyWith(PlatformRulesServer1, IgnoreRuleServer, href)
classifyServer2(href) == classifyWith(PlatformRulesServer2, IgnoreRuleServer, href)

(***************************************************************************)
(* pageText.match(/[a-zA-Z0-9._%+-]+@[a-zA-Z0-9.-]+\.[a-zA-Z]{2,}/g)       *)
(***************************************************************************)
LocalCharSet == AlphaSet \cup DigitSet \cup {".", "_", "%", "+", "-"}
DomainCharSet == AlphaSet \cup DigitSet \cup {".", "-"}

\* End of the match that starts at i (index after its last character), 0 when
\* no match starts at i.  The local part is the run of local characters from
\* i and must stop at "@"; the domain backtracks from the longest run of
\* domain characters to the last "." that is followed by two or more letters.
MatchEnd(s, i) ==
  LET at == RunEnd(s, i, LocalCharSet)
  IN  IF at = i \/ at > Len(s) \/ SubSeq(s, at, at) # "@" THEN 0
      ELSE LET de   == RunEnd(s, at + 1, DomainCharSet)
               dots == {p \in (at + 2)..(de - 1) :
                          /\ SubSeq(s, p, p) = "."
                          /\ RunEnd(s, p + 1, AlphaSet) >= p + 3}
           IN  IF dots = {} THEN 0
               ELSE LET p == CHOOSE q \in dots : \A r \in dots : r <= q
                    IN  RunEnd(s, p + 1, AlphaSet)

RECURSIVE MatchAll(_, _)
MatchAll(s, i) ==
  IF i > Len(s) THEN <<>>
  ELSE LET e == MatchEnd(s, i)
       IN  IF e > 0 THEN <<SubSeq(s, i, e - 1)>> \o MatchAll(s, e)
           ELSE MatchAll(s, i + 1)

\* (pageText.match(emailRegex) || [])
matchEmails(pageText) == MatchAll(pageText, 1)

(***************************************************************************)
(* The rendered page.                                                      *)
(*   text      : document.body.innerText                                   *)
(*   elements  : the a / button elements in document order; href is the    *)
(*               resolved a.href ("" when the element has none), caption   *)
(*               is innerText, region tells which selector of the          *)
(*               platform-specific containers the element matches          *)
(*               ("wiz": .yt-channel-external-link-view-model-wiz__container a, *)
(*                "header": .channel-header-links a, "none": neither)      *)
(*   scripts   : textContent of the script[type="application/ld+json"]     *)
(*               elements in document order                                *)
(*   domThrows : the DOM queries made by the business heuristic throw      *)
(***************************************************************************)
Anchor(href, caption, region) ==
  [tag |-> "a", href |-> href, caption |-> caption, region |-> region]
Button(caption) ==
  [tag |-> "button", href |-> "", caption |-> caption, region |-> "none"]

\* JSON values of a structured-data block, as far as the harvest looks at them
SameAsAbsent == [k |-> "absent", vs |-> <<>>]
SameAsOne(v) == [k |-> "one", vs |-> <<v>>]
SameAsList(vs) == [k |-> "list", vs |-> vs]
JFail == [k |-> "fail", v |-> Null, sameAs |-> SameAsAbsent, items |-> <<>>]
JPrim(v) == [k |-> "prim", v |-> v, sameAs |-> SameAsAbsent, items |-> <<>>]
JRec(sameAs) == [k |-> "rec", v |-> Null, sameAs |-> sameAs, items |-> <<>>]
JArr(items) == [k |-> "arr", v |-> Null, sameAs |-> SameAsAbsent, items |-> items]

\* JSON.parse(s.textContent) on the block texts of the explored pages;
\* JFail stands for the SyntaxError it throws
JSONParse(text) ==
  CASE text = "{oops" -> JFail
    [] text = "42" -> JPrim(Num("42"))
    [] text = "[null]" -> JArr(<<JPrim(Null)>>)
    [] text = "{\"sameAs\":\"https://twitter.com/z\"}" ->
         JRec(SameAsOne(Str("https://twitter.com/z")))
    [] text = "{\"sameAs\":[\"not a url\",\"https://example.com\"]}" ->
         JRec(SameAsList(<<Str("not a url"), Str("https://example.com")>>))
    [] text = "{\"sameAs\":[\"https://instagr.am/z\",\"\",7]}" ->
         JRec(SameAsList(<<Str("https://instagr.am/z"), Str(""), Num("7")>>))
    [] text = "[{\"sameAs\":\"https://instagram.com/w\"},{\"name\":\"n\"},{\"sameAs\":[\"https://example.com/\"]}]" ->
         JArr(<<JRec(SameAsOne(Str("https://instagram.com/w"))),
                JRec(SameAsAbsent),
                JRec(SameAsList(<<Str("https://example.com/")>>))>>)
    [] text = "{\"sameAs\":\"mailto:biz@example.com\"}" ->
         JRec(SameAsOne(Str("mailto:biz@example.com")))
    [] text = "{\"sameAs\":\"\"}" -> JRec(SameAsOne(Str("")))
    [] OTHER -> JFail

JsonTexts ==
  { "{oops", "42", "[null]",
    "{\"sameAs\":\"https://twitter.com/z\"}",
    "{\"sameAs\":[\"not a url\",\"https://example.com\"]}",
    "{\"sameAs\":[\"https://instagr.am/z\",\"\",7]}",
    "{\"sameAs\":\"\"}",
    "[{\"sameAs\":\"https://instagram.com/w\"},{\"name\":\"n\"},{\"sameAs\":[\"https://example.com/\"]}]" }

LinkElements ==
  { Anchor("https://www.instagram.com/x", "", "none"),
    Anchor("https://instagram.com/y", "", "wiz"),
    Anchor("https://example.com", "", "header"),
    Anchor("https://www.youtube.com/c", "", "none"),
    Anchor("https://", "", "none") }

CaptionElements ==
  { Anchor("mailto:a@b.com", "Email", "none"),
    Anchor("https://example.com", "Contact us", "wiz"),
    Button("Business inquiries"),
    Button("Subscribe") }

\* anchors whose hosts, paths and containers exercise the platform tables
HostElements ==
  { Anchor("https://x.com/u", "", "none"),
    Anchor("https://www.wix.com/site", "", "none"),
    Anchor("https://netflix.com/", "", "header"),
    Anchor("https://example.com/?ref=instagram.com", "", "wiz"),
    Anchor("https://example.com/about", "", "wiz"),
    Anchor("https://twitter.com.instagram.com/", "", "none"),
    Anchor("https://instagram.com.youtube.com/", "", "none"),
    Anchor("https://music.youtube.com/c", "", "none"),
    Anchor("https://i.ytimg.com/a.png", "", "header"),
    Anchor("mailto:biz@example.com", "", "none") }

HostJsonTexts == { "{\"sameAs\":\"mailto:biz@example.com\"}" }

TextTokens ==
  { "contact: a@b.com", ", also A@B.COM", " c@d.io.", "Sponsor me", "hello -" }

SeqsUpTo(S, n) == UNION {[1..k -> S] : k \in 0..n}

RECURSIVE Concat(_)
Concat(tokens) == IF tokens = <<>> THEN "" ELSE Head(tokens) \o Concat(Tail(tokens))

Impls == {"enhanced", "server1", "server2", "handler"}

VARIABLES
  impl,      \* the draft that runs
  page,      \* the rendered page
  pc,        \* "start", "post" (first server draft, between its two passes) or "done"
  allLinks,  \* the merged candidate list built by the evaluate callback
  outcome,   \* "pending", "returned" or "threw"
  result,    \* what extractContactInfoFromPage (or the handler's evaluate) returns
  runs,      \* the earlier calls of the extraction: page, outcome and result of each
  puppeteer, \* the module-level puppeteer: TRUE when an import succeeded, FALSE for null
  chromium,  \* fs.existsSync finds one of the Chromium paths
  req,       \* the /api/scrape-about requests in flight: the locals of each invocation
  browsers,  \* the browser processes launched so far: [open |-> ...] by handle
  browser,   \* the browser bindings of the invocations: 0 stands for undefined
  outreach   \* a call of generatePersonalizedOutreach: its channelData and how it settled

\* the state of the callers of the extraction
callerVars == <<runs, puppeteer, chromium, req, browsers, browser, outreach>>

vars == <<impl, page, pc, allLinks, outcome, result, runs,
          puppeteer, chromium, req, browsers, browser, outreach>>

NoResult == [pending |-> TRUE]
HandlerLabelSet == {"instagram", "twitter", "facebook", "tiktok", "linkedin", "patreon", "kofi"}
EmptyMap == [l \in {} |-> Null]

InitLocals ==
  /\ pc = "start"
  /\ allLinks = <<>>
  /\ outcome = "pending"
  /\ result = NoResult

\* no caller has run yet and no request is in flight
InitCallers ==
  /\ runs = <<>>
  /\ puppeteer = FALSE
  /\ chromium = FALSE
  /\ req = <<>>
  /\ browsers = <<>>
  /\ browser = <<>>
  /\ outreach = <<>>

\* pages that exercise the link harvest and the classification: at most
\* MaxItems anchors and structured-data blocks together
InitLinks ==
  /\ impl \in Impls
  /\ \E e \in 0..MaxItems :
       \E b \in 0..(MaxItems - e) :
         \E els \in [1..e -> LinkElements], ss \in [1..b -> JsonTexts] :
           /\ impl = "handler" => ss = <<>>
           /\ page = [text |-> "", elements |-> els, scripts |-> ss, domThrows |-> FALSE]
  /\ InitLocals
  /\ InitCallers

\* pages that exercise the email extraction and the business heuristic
InitText ==
  /\ impl \in Impls
  /\ \E toks \in SeqsUpTo(TextTokens, MaxTokens),
        els \in SeqsUpTo(CaptionElements, MaxCaptions),
        thr \in BOOLEAN :
       /\ impl \in {"server2", "handler"} => thr = FALSE
       /\ page = [text |-> Concat(toks), elements |-> els, scripts |-> <<>>, domThrows |-> thr]
  /\ InitLocals
  /\ InitCallers

\* pages that exercise the platform tables: at most MaxHostLinks anchors and
\* at most one structured-data block
InitHosts ==
  /\ impl \in Impls
  /\ \E els \in SeqsUpTo(HostElements, MaxHostLinks), ss \in SeqsUpTo(HostJsonTexts, 1) :
       /\ impl = "handler" => ss = <<>>
       /\ page = [text |-> "", elements |-> els, scripts |-> ss, domThrows |-> FALSE]
  /\ InitLocals
  /\ InitCallers

\* the pages a caller hands to the extraction one after the other
RunPages ==
  { [text |-> "", elements |-> <<>>, scripts |-> <<>>, domThrows |-> FALSE],
    [text |-> "contact: a@b.com",
     elements |-> <<Anchor("https://www.instagram.com/x", "", "none"),
                    Anchor("https://instagram.com/y", "", "wiz")>>,
     scripts |-> <<"{\"sameAs\":\"https://twitter.com/z\"}">>,
     domThrows |-> FALSE],
    [text |-> "",
     elements |-> <<Anchor("https://example.com", "", "header"),
                    Anchor("https://www.youtube.com/c", "", "none")>>,
     scripts |-> <<"{oops", "{\"sameAs\":[\"not a url\",\"https://example.com\"]}">>,
     domThrows |-> FALSE],
    [text |-> "Sponsor me",
     elements |-> <<Anchor("mailto:a@b.com", "Email", "none")>>,
     scripts |-> <<"[null]">>,
     domThrows |-> FALSE],
    [text |-> " c@d.io.",
     elements |-> <<Anchor("https://instagram.com/y", "", "wiz")>>,
     scripts |-> <<"{\"sameAs\":[\"https://instagr.am/z\",\"\",7]}">>,
     domThrows |-> FALSE] }

\* a caller that runs the extraction on several pages in turn
InitRuns ==
  /\ impl \in Impls
  /\ page \in RunPages
  /\ InitLocals
  /\ InitCallers

(***************************************************************************)
(* Email extraction.                                                       *)
(***************************************************************************)
MapLower(ms) == [i \in 1..Len(ms) |-> Str(ToLowerCase(ms[i]))]
MapStr(ms) == [i \in 1..Len(ms) |-> Str(ms[i])]

\* const emails of a draft
\* enhanced, server1, server2: (pageText.match(emailRegex) || []).map(e => e.toLowerCase())
\* handler: document.body.innerText.match(emailRegex) || []
EmailsOf(i, text) ==
  IF i = "handler" THEN MapStr(matchEmails(text)) ELSE MapLower(matchEmails(text))

(***************************************************************************)
(* Business-contactability heuristic.                                      *)
(***************************************************************************)
businessTexts ==
  { "business inquir", "business email", "business contact",
    "press inquir", "media inquir", "collaboration", "partnership",
    "sponsor", "brand deal", "work with me", "business@", "contact@" }

hasBusinessText(text) == \E t \in businessTexts : Includes(ToLowerCase(text), t)

\* document.querySelectorAll('a[href^="mailto:"]').length > 0
mailtoLinks(els) ==
  \E i \in 1..Len(els) : els[i].tag = "a" /\ StartsWith(els[i].href, "mailto:")

\* some button / a / tp-yt-paper-button caption holds one of the three words
businessButtons(els) ==
  \E i \in 1..Len(els) :
    LET text == ToLowerCase(els[i].caption)
    IN  Includes(text, "business") \/ Includes(text, "inquiry") \/ Includes(text, "contact")

\* the heuristic with a catch branch that returns false
BusinessInquiryCatchFalse(p, ems) ==
  IF p.domThrows THEN FALSE
  ELSE hasBusinessText(p.text) \/ mailtoLinks(p.elements)
         \/ businessButtons(p.elements) \/ Len(ems) > 0

\* the IIFE of the enhanced draft: the catch branch runs when a DOM query throws
BusinessInquiryEnhanced(p, ems) ==
  IF p.domThrows THEN Len(ems) > 0
  ELSE hasBusinessText(p.text) \/ mailtoLinks(p.elements)
         \/ businessButtons(p.elements) \/ Len(ems) > 0

\* the IIFE of the first server draft
BusinessInquiryServer1(p) ==
  IF p.domThrows THEN FALSE
  ELSE \/ \E i \in 1..Len(p.elements) :
            LET text == ToLowerCase(p.elements[i].caption)
            IN  Includes(text, "business inquiry") \/ Includes(text, "business inquiries")
       \/ mailtoLinks(p.elements)

(***************************************************************************)
(* Link harvest.                                                           *)
(***************************************************************************)
RECURSIVE HrefsWhere(_, _)
HrefsWhere(els, regions) ==
  IF els = <<>> THEN <<>>
  ELSE (IF Head(els).tag = "a" /\ Head(els).region \in regions
        THEN <<Str(Head(els).href)>> ELSE <<>>) \o HrefsWhere(Tail(els), regions)

\* Array.from(document.querySelectorAll("a[href]")).map(a => a.href).filter(Boolean)
anchors(els) == FilterBoolean(HrefsWhere(els, {"none", "wiz", "header"}))

\* the four container selectors of the enhanced draft, .filter(Boolean)
externalLinks(els) == FilterBoolean(HrefsWhere(els, {"wiz", "header"}))

\* .yt-channel-external-link-view-model-wiz__container a, not filtered
socialMediaLinks(els) == HrefsWhere(els, {"wiz"})

\* the blocks parsed under one try: a failing block loses them all
jsonLdOneTry(scripts) ==
  IF \E i \in 1..Len(scripts) : JSONParse(scripts[i]).k = "fail" THEN <<>>
  ELSE SelectSeq([i \in 1..Len(scripts) |-> JSONParse(scripts[i])],
                 LAMBDA obj : ~(obj.k = "prim" /\ ~Truthy(obj.v)))

\* scripts.map(s => { try { return JSON.parse(s.textContent) } catch { return null } }).filter(Boolean)
RECURSIVE jsonLd(_)
jsonLd(scripts) ==
  IF scripts = <<>> THEN <<>>
  ELSE LET obj == JSONParse(Head(scripts))
       IN  (IF obj.k = "fail" \/ (obj.k = "prim" /\ ~Truthy(obj.v)) THEN <<>> ELSE <<obj>>)
             \o jsonLd(Tail(scripts))

\* o.sameAs is truthy
HasSameAs(o) ==
  \/ o.sameAs.k = "list"
  \/ o.sameAs.k = "one" /\ Truthy(o.sameAs.vs[1])

\* a harvest that takes only the first element of a sameAs list
SameAsOfFirstOnly(o) ==
  IF o.k = "rec" /\ HasSameAs(o) THEN SubSeq(o.sameAs.vs, 1, 1) ELSE <<>>

\* if (o.sameAs) sameAsLinks = sameAsLinks.concat(Array.isArray(o.sameAs) ? o.sameAs : [o.sameAs])
SameAsOf(o) == IF o.k = "rec" /\ HasSameAs(o) THEN o.sameAs.vs ELSE <<>>

\* reading o.sameAs of a null element of an array block is a TypeError
Throws(obj) ==
  obj.k = "arr" /\ \E i \in 1..Len(obj.items) :
                     obj.items[i].k = "prim" /\ obj.items[i].v = Null

RECURSIVE SameAsOfItems(_)
SameAsOfItems(items) ==
  IF items = <<>> THEN <<>> ELSE SameAsOf(Head(items)) \o SameAsOfItems(Tail(items))

RECURSIVE sameAsLinks(_)
sameAsLinks(objs) ==
  IF objs = <<>> THEN <<>>
  ELSE (IF Head(objs).k = "arr" THEN SameAsOfItems(Head(objs).items) ELSE SameAsOf(Head(objs)))
         \o sameAsLinks(Tail(objs))

HarvestThrows(scripts) ==
  LET objs == jsonLd(scripts) IN \E i \in 1..Len(objs) : Throws(objs[i])

\* the merged candidate list of each draft
MergedLinks(i, p) ==
  LET same == sameAsLinks(jsonLd(p.scripts))
  IN  CASE i = "enhanced" -> anchors(p.elements) \o externalLinks(p.elements) \o same
        [] i = "server1" -> anchors(p.elements) \o same
        [] OTHER -> socialMediaLinks(p.elements) \o same

(***************************************************************************)
(* Categorisation of the merged links.                                     *)
(***************************************************************************)
Put(map, label, href) ==
  [l \in DOMAIN map \cup {label} |-> IF l = label THEN href ELSE map[l]]

Acc(so, we, ot) == [social |-> so, websites |-> we, otherLinks |-> ot]

\* a turn that files a website link under otherLinks as well
RouteWebsiteTwice(acc, href) ==
  LET type == classify(href)
  IN  IF type = "ignore" THEN acc
      ELSE IF type = "website"
           THEN Acc(acc.social, Append(acc.websites, href), Append(acc.otherLinks, href))
      ELSE IF type = "other" THEN Acc(acc.social, acc.websites, Append(acc.otherLinks, href))
      ELSE IF type \notin DOMAIN acc.social THEN Acc(Put(acc.social, type, href), acc.websites, acc.otherLinks)
      ELSE acc

\* one turn of uniqueLinks.forEach of the enhanced draft
Route(acc, href) ==
  LET type == classify(href)
  IN  IF type = "ignore" THEN acc
      ELSE IF type = "website" THEN Acc(acc.social, Append(acc.websites, href), acc.otherLinks)
      ELSE IF type = "other" THEN Acc(acc.social, acc.websites, Append(acc.otherLinks, href))
      ELSE IF type \notin DOMAIN acc.social THEN Acc(Put(acc.social, type, href), acc.websites, acc.otherLinks)
      ELSE acc

\* one turn of allLinks.forEach of the server drafts:
\* social[type] = social[type] || href
RouteServer(acc, href, type) ==
  IF type = "ignore" THEN acc
  ELSE IF type = "website" THEN Acc(acc.social, Append(acc.websites, href), acc.otherLinks)
  ELSE IF type = "other" THEN Acc(acc.social, acc.websites, Append(acc.otherLinks, href))
  ELSE IF type \in DOMAIN acc.social /\ Truthy(acc.social[type]) THEN acc
  ELSE Acc(Put(acc.social, type, href), acc.websites, acc.otherLinks)

RECURSIVE Categorize(_, _, _)
Categorize(i, links, acc) ==
  IF links = <<>> THEN acc
  ELSE Categorize(i, Tail(links),
         CASE i = "enhanced" -> Route(acc, Head(links))
           [] i = "server1" -> RouteServer(acc, Head(links), classifyServer1(Head(links)))
           [] OTHER -> RouteServer(acc, Head(links), classifyServer2(Head(links))))

\* the list the forEach runs over: uniq(allLinks) in the enhanced draft,
\* allLinks itself in the server drafts
LinksToCategorize(i, links) == IF i = "enhanced" THEN uniq(links) ELSE links

(***************************************************************************)
(* The value returned by page.evaluate.                                    *)
(***************************************************************************)
\* the result with totalLinksFound computed from the three link fields
ResultEnhancedCountsOfFields(ems, so, we, ot, flag, links) ==
  [ emails |-> uniq(ems),
    social |-> so,
    websites |-> uniq(we),
    otherLinks |-> uniq(ot),
    hasBusinessInquiry |-> flag,
    totalLinksFound |-> Cardinality(DOMAIN so) + Len(uniq(we)) + Len(uniq(ot)),
    socialLinksFound |-> Cardinality(DOMAIN so) ]

ResultEnhanced(ems, so, we, ot, flag, links) ==
  [ emails |-> uniq(ems),
    social |-> so,
    websites |-> uniq(we),
    otherLinks |-> uniq(ot),
    hasBusinessInquiry |-> flag,
    totalLinksFound |-> Len(uniq(links)),
    socialLinksFound |-> Cardinality(DOMAIN so) ]

ResultServer(ems, so, we, ot, flag) ==
  [ emails |-> uniq(ems),
    social |-> so,
    websites |-> uniq(we),
    otherLinks |-> uniq(ot),
    hasBusinessInquiry |-> flag ]

\* accumulators that start with a slot of "" for every label, as the socials
\* object of the serverless handler does
NoLinksAllSlots == Acc([l \in HandlerLabelSet |-> Str("")], <<>>, <<>>)

\* accumulators that outlive the call: the next call starts from what the
\* previous one collected
NoLinksKeptAcrossRuns ==
  IF runs # <<>> /\ runs[Len(runs)].outcome = "returned" /\ "social" \in DOMAIN runs[Len(runs)].result
  THEN LET last == runs[Len(runs)].result
       IN  Acc(last.social, last.websites, last.otherLinks)
  ELSE Acc(EmptyMap, <<>>, <<>>)

NoLinks == Acc(EmptyMap, <<>>, <<>>)

\* the value the callback of the enhanced draft returns for page p
EvaluatedEnhanced(p) ==
  LET ems   == EmailsOf("enhanced", p.text)
      links == MergedLinks("enhanced", p)
      acc   == Categorize("enhanced", LinksToCategorize("enhanced", links), NoLinks)
  IN  ResultEnhanced(ems, acc.social, acc.websites, acc.otherLinks,
                     BusinessInquiryEnhanced(p, ems), links)

\* the value the callback of the first server draft returns
EvaluatedServer1(p) ==
  LET acc == Categorize("server1", MergedLinks("server1", p), NoLinks)
  IN  ResultServer(EmailsOf("server1", p.text), acc.social, acc.websites, acc.otherLinks,
                   BusinessInquiryServer1(p))

\* the value the callback of the second server draft returns:
\* hasBusinessInquiry: socialMediaLinks.length > 0
EvaluatedServer2(p) ==
  LET acc == Categorize("server2", MergedLinks("server2", p), NoLinks)
  IN  ResultServer(EmailsOf("server2", p.text), acc.social, acc.websites, acc.otherLinks,
                   Len(socialMediaLinks(p.elements)) > 0)

\* page.evaluate of the enhanced draft; a throw inside the callback rejects it
EvaluateEnhanced ==
  /\ pc = "start" /\ impl = "enhanced"
  /\ IF HarvestThrows(page.scripts)
     THEN outcome' = "threw" /\ UNCHANGED <<allLinks, result>>
     ELSE /\ allLinks' = MergedLinks(impl, page)
          /\ result' = EvaluatedEnhanced(page)
          /\ outcome' = "returned"
  /\ pc' = "done"
  /\ UNCHANGED <<impl, page>>
  /\ UNCHANGED callerVars

\* page.evaluate of the first server draft; the result goes on to the second pass
EvaluateServer1 ==
  /\ pc = "start" /\ impl = "server1"
  /\ IF HarvestThrows(page.scripts)
     THEN outcome' = "threw" /\ pc' = "done" /\ UNCHANGED <<allLinks, result>>
     ELSE /\ allLinks' = MergedLinks(impl, page)
          /\ result' = EvaluatedServer1(page)
          /\ pc' = "post"
          /\ UNCHANGED outcome
  /\ UNCHANGED <<impl, page>>
  /\ UNCHANGED callerVars

\* page.evaluate of the second server draft
EvaluateServer2 ==
  /\ pc = "start" /\ impl = "server2"
  /\ IF HarvestThrows(page.scripts)
     THEN outcome' = "threw" /\ UNCHANGED <<allLinks, result>>
     ELSE /\ allLinks' = MergedLinks(impl, page)
          /\ result' = EvaluatedServer2(page)
          /\ outcome' = "returned"
  /\ pc' = "done"
  /\ UNCHANGED <<impl, page>>
  /\ UNCHANGED callerVars

(***************************************************************************)
(* First server draft: the second pass over the container links, made on   *)
(* the returned result with substring tests on the whole href.             *)
(***************************************************************************)
PostRoute(res, href) ==
  IF Includes(href.s, "instagram.com") THEN [res EXCEPT !.social = Put(@, "instagram", href)]
  ELSE IF Includes(href.s, "twitter.com") \/ Includes(href.s, "x.com")
       THEN [res EXCEPT !.social = Put(@, "twitter", href)]
  ELSE IF Includes(href.s, "facebook.com") THEN [res EXCEPT !.social = Put(@, "facebook", href)]
  ELSE IF Includes(href.s, "tiktok.com") THEN [res EXCEPT !.social = Put(@, "tiktok", href)]
  ELSE IF Includes(href.s, "linkedin.com") THEN [res EXCEPT !.social = Put(@, "linkedin", href)]
  ELSE [res EXCEPT !.otherLinks = Append(@, href)]

RECURSIVE PostProcess(_, _)
PostProcess(res, links) ==
  IF links = <<>> THEN res ELSE PostProcess(PostRoute(res, Head(links)), Tail(links))

PostProcessSocialLinks ==
  /\ pc = "post"
  /\ result' = PostProcess(result, socialMediaLinks(page.elements))
  /\ pc' = "done"
  /\ outcome' = "returned"
  /\ UNCHANGED <<impl, page, allLinks>>
  /\ UNCHANGED callerVars

(***************************************************************************)
(* The evaluate callback of the serverless handler.                        *)
(***************************************************************************)
HandlerLabels == HandlerLabelSet

HandlerPatterns(label) ==
  CASE label = "instagram" -> {"instagram.com"}
    [] label = "twitter" -> {"twitter.com", "x.com"}
    [] label = "facebook" -> {"facebook.com"}
    [] label = "tiktok" -> {"tiktok.com"}
    [] label = "linkedin" -> {"linkedin.com"}
    [] label = "patreon" -> {"patreon.com"}
    [] OTHER -> {"ko-fi.com"}

\* links.find(l => l.includes(p1) || l.includes(p2)) || ""
FindLink(links, patterns) ==
  LET hit(i) == \E p \in patterns : Includes(links[i].s, p)
  IN  IF \E i \in 1..Len(links) : hit(i)
      THEN links[CHOOSE i \in 1..Len(links) : hit(i) /\ \A j \in 1..(i - 1) : ~hit(j)]
      ELSE Str("")

HandlerSocialHosts ==
  { "youtube.com", "instagram.com", "twitter.com", "facebook.com",
    "tiktok.com", "linkedin.com", "patreon.com", "ko-fi.com" }

IsHandlerWebsite(href) ==
  LET url == URLParse(href.s)
  IN  url.ok /\ \A h \in HandlerSocialHosts : ~Includes(ToLowerCase(url.hostname), h)

RECURSIVE HandlerWebsites(_)
HandlerWebsites(links) ==
  IF links = <<>> THEN <<>>
  ELSE (IF IsHandlerWebsite(Head(links)) THEN <<Head(links)>> ELSE <<>>)
         \o HandlerWebsites(Tail(links))

\* Array.from(document.querySelectorAll("a[href]")).map(a => a.href)
HandlerLinks(els) == HrefsWhere(els, {"none", "wiz", "header"})

\* the value the handler's callback returns
EvaluatedHandler(p) ==
  LET links == HandlerLinks(p.elements)
  IN  [ emails |-> EmailsOf("handler", p.text),
        socials |-> [l \in HandlerLabels |-> FindLink(links, HandlerPatterns(l))],
        websites |-> HandlerWebsites(links) ]

EvaluateHandler ==
  /\ pc = "start" /\ impl = "handler"
  /\ allLinks' = HandlerLinks(page.elements)
  /\ result' = EvaluatedHandler(page)
  /\ pc' = "done"
  /\ outcome' = "returned"
  /\ UNCHANGED <<impl, page>>
  /\ UNCHANGED callerVars

(***************************************************************************)
(* A caller that invokes the extraction again, on the same or another page, *)
(* once the previous call has settled.                                      *)
(***************************************************************************)
NextRun ==
  /\ pc = "done"
  /\ Len(runs) < MaxRuns - 1
  /\ runs' = Append(runs, [page |-> page, outcome |-> outcome, result |-> result])
  /\ page' \in RunPages
  /\ pc' = "start"
  /\ allLinks' = <<>>
  /\ outcome' = "pending"
  /\ result' = NoResult
  /\ UNCHANGED <<impl, puppeteer, chromium, req, browsers, browser, outreach>>

(***************************************************************************)
(* app.get("/api/scrape-about") of src/unnamed/part_000:239-386.  Every    *)
(* request is one invocation of the async handler; an action runs an        *)
(* invocation from one await to the next, so the invocations interleave at  *)
(* their awaits.  (setUserAgent and setViewport are taken together with     *)
(* newPage, waitForTimeout together with goto.)                             *)
(*                                                                         *)
(* The repository holds three more drafts of the scrape endpoint, selected  *)
(* by impl like the drafts of the extraction:                               *)
(*   "server1"  app.get of src/server.js:158-187: responds inside try and   *)
(*              closes the browser in a bare finally;                       *)
(*   "fixed"    app.get of src/api/scrape-about.js:236-327: responds inside *)
(*              try and closes in finally under its own try/catch;          *)
(*   "handler"  the serverless handler of src/api/scrape-about.js:3-73:     *)
(*              closes before the 200 response and has no finally.  Its     *)
(*              requests are POST requests (any other method gets 405       *)
(*              before the try).                                            *)
(***************************************************************************)
RouteDrafts == {"enhanced", "server1", "fixed", "handler"}

Requests == {"r1", "r2"}

\* req.query.channelId of a request; "" stands for a missing parameter
ChannelIds == {"", "UCa", "UCb", "UC404", "UCnull"}

\* what the collaborators of one request do: "launch" - puppeteer.launch
\* rejects, "goto" - the navigation times out, "close" - browser.close rejects
Faults == {"none", "launch", "goto", "close"}

\* the rendered about page of a channel
ChannelPage(channelId) ==
  CASE channelId = "UCa" ->
         [text |-> "contact: a@b.com",
          elements |-> <<Anchor("https://www.instagram.com/x", "", "none"),
                         Anchor("https://example.com", "", "header")>>,
          scripts |-> <<"{\"sameAs\":\"https://twitter.com/z\"}">>,
          domThrows |-> FALSE]
    [] channelId = "UCb" ->
         [text |-> "",
          elements |-> <<Anchor("https://instagram.com/y", "", "wiz"),
                         Anchor("https://www.youtube.com/c", "", "none")>>,
          scripts |-> <<"{oops">>,
          domThrows |-> FALSE]
    [] channelId = "UCnull" ->
         [text |-> "", elements |-> <<>>, scripts |-> <<"[null]">>, domThrows |-> FALSE]
    [] OTHER -> [text |-> "", elements |-> <<>>, scripts |-> <<>>, domThrows |-> FALSE]

\* await page.title()
ChannelTitle(channelId) ==
  IF channelId = "UC404" THEN "404 Not Found" ELSE channelId \o " - YouTube"

\* title.includes('404') || title.includes('not found')
TitleNotFound(title) == Includes(title, "404") \/ Includes(title, "not found")

aboutUrl(channelId) == "https://www.youtube.com/channel/" \o channelId \o "/about"

Response(status, body) == [status |-> status, body |-> body]

\* res.status(400).json({ error: "Missing channelId" })
MissingChannelId == Response(400, [error |-> "Missing channelId"])

\* the body of the 503 and 500 responses
FailureBody(message, channelId) ==
  [ error |-> message,
    channelId |-> channelId,
    success |-> FALSE,
    emails |-> <<>>,
    social |-> EmptyMap,
    websites |-> <<>>,
    otherLinks |-> <<>>,
    hasBusinessInquiry |-> FALSE ]

PuppeteerUnavailable(channelId) ==
  Response(503, FailureBody("Puppeteer not available in this environment", channelId))

ScrapeFailed(message, channelId) == Response(500, FailureBody(message, channelId))

\* the 500 response of the catch block of each draft
RouteFailed(i, message, channelId) ==
  CASE i = "server1" -> Response(500, [error |-> message])
    [] i = "handler" -> Response(500, [error |-> "Scraping failed", details |-> message])
    [] OTHER -> ScrapeFailed(message, channelId)

\* res.json({ channelId, aboutUrl: url, success: true, ...contacts })
ScrapeSucceeded(channelId, contacts) ==
  Response(200,
    [ channelId |-> channelId,
      aboutUrl |-> aboutUrl(channelId),
      success |-> TRUE,
      emails |-> contacts.emails,
      social |-> contacts.social,
      websites |-> contacts.websites,
      otherLinks |-> contacts.otherLinks,
      hasBusinessInquiry |-> contacts.hasBusinessInquiry,
      totalLinksFound |-> contacts.totalLinksFound,
      socialLinksFound |-> contacts.socialLinksFound ])

\* the 200 response of each draft: the first server draft spreads the contacts
\* after channelId and aboutUrl, the serverless handler sends them bare
RouteSucceeded(i, channelId, contacts) ==
  CASE i = "server1" ->
         Response(200,
           [ channelId |-> channelId,
             aboutUrl |-> aboutUrl(channelId),
             emails |-> contacts.emails,
             social |-> contacts.social,
             websites |-> contacts.websites,
             otherLinks |-> contacts.otherLinks,
             hasBusinessInquiry |-> contacts.hasBusinessInquiry ])
    [] i = "handler" -> Response(200, contacts)
    [] OTHER -> ScrapeSucceeded(channelId, contacts)

\* what await extractContactInfoFromPage(page) (the handler: await
\* page.evaluate) yields in each draft
RouteContacts(i, p) ==
  CASE i = "server1" -> PostProcess(EvaluatedServer1(p), socialMediaLinks(p.elements))
    [] i = "handler" -> EvaluatedHandler(p)
    [] OTHER -> EvaluatedEnhanced(p)

\* err.message of the failures
ChromiumNotFound == "Chromium executable not found. Please ensure build command ran successfully."
LaunchFailed == "Failed to launch the browser process"
NavigationTimeout == "Navigation timeout of 30000 ms exceeded"
ChannelNotFound == "Channel not found or About page not accessible"
ExtractionFailed == "Cannot read properties of null (reading 'sameAs')"
CloseFailed == "Protocol error: Connection closed"
TargetClosed == "Target closed"

\* one binding of browser for all invocations, as a module-level variable is
BrowserBindingShared(r) == "module"

\* let browser is declared inside the handler: every invocation has its own binding
BrowserBinding(r) == r

\* the browser an invocation sees through its binding
BrowserOf(r) == browser[BrowserBinding(r)]
IsOpen(h) == h \in 1..Len(browsers) /\ browsers[h].open

\* the locals of a fresh invocation
NewRequest(channelId, fault) ==
  [ channelId |-> channelId,
    fault |-> fault,
    pc |-> "received",
    page |-> 0,
    contacts |-> NoResult,
    error |-> "",
    sent |-> <<>> ]

InitServe ==
  /\ impl = "enhanced"
  /\ page = [text |-> "", elements |-> <<>>, scripts |-> <<>>, domThrows |-> FALSE]
  /\ pc = "idle"
  /\ allLinks = <<>>
  /\ outcome = "pending"
  /\ result = NoResult
  /\ runs = <<>>
  /\ puppeteer \in BOOLEAN
  /\ chromium \in BOOLEAN
  /\ req \in [Requests -> {NewRequest(c, f) : c \in ChannelIds, f \in Faults}]
  /\ browsers = <<>>
  /\ browser = [b \in {BrowserBinding(r) : r \in Requests} |-> 0]
  /\ outreach = <<>>

\* what a scrape request leaves alone
extractionVars == <<impl, page, pc, allLinks, outcome, result, runs, outreach>>

\* res.json / res.status(..).json: the response is sent and the invocation ends
Send(r, response) ==
  req' = [req EXCEPT ![r].sent = Append(@, response), ![r].pc = "responded"]

\* res.json inside try of the drafts that close in finally: the response is
\* sent and the finally block is still to run
SendThenFinally(r, response) ==
  req' = [req EXCEPT ![r].sent = Append(@, response), ![r].pc = "finally"]

\* a throw inside try: the catch block runs.  part_000: without a browser it
\* responds at once; with one it first awaits browser.close().  The drafts
\* with a finally block respond and go on to it; the serverless handler
\* responds and ends
Catch(r, message) ==
  CASE impl = "enhanced" ->
         IF BrowserOf(r) = 0
         THEN Send(r, ScrapeFailed(message, req[r].channelId))
         ELSE req' = [req EXCEPT ![r].error = message, ![r].pc = "catchClose"]
    [] impl \in {"server1", "fixed"} ->
         SendThenFinally(r, RouteFailed(impl, message, req[r].channelId))
    [] OTHER -> Send(r, RouteFailed(impl, message, req[r].channelId))

\* the handler up to its first await (await import('fs'); in the other
\* drafts, which import puppeteer statically, await puppeteer.launch)
Receive(r) ==
  /\ req[r].pc = "received"
  /\ IF req[r].channelId = "" THEN Send(r, MissingChannelId)
     ELSE IF impl = "enhanced" /\ ~puppeteer
          THEN Send(r, PuppeteerUnavailable(req[r].channelId))
     ELSE req' = [req EXCEPT ![r].pc = IF impl = "enhanced" THEN "importFs" ELSE "launch"]
  /\ UNCHANGED <<extractionVars, puppeteer, chromium, browsers, browser>>

\* the search for the executable, up to await puppeteer.launch
FindChromium(r) ==
  /\ req[r].pc = "importFs"
  /\ IF ~chromium THEN Catch(r, ChromiumNotFound)
     ELSE req' = [req EXCEPT ![r].pc = "launch"]
  /\ UNCHANGED <<extractionVars, puppeteer, chromium, browsers, browser>>

\* browser = await puppeteer.launch(launchOptions), up to await browser.newPage()
Launch(r) ==
  /\ req[r].pc = "launch"
  /\ IF req[r].fault = "launch"
     THEN Catch(r, LaunchFailed) /\ UNCHANGED <<browsers, browser>>
     ELSE /\ browsers' = Append(browsers, [open |-> TRUE])
          /\ browser' = [browser EXCEPT ![BrowserBinding(r)] = Len(browsers) + 1]
          /\ req' = [req EXCEPT ![r].pc = "newPage"]
  /\ UNCHANGED <<extractionVars, puppeteer, chromium>>

\* const page = await browser.newPage(), the user agent and the viewport, up
\* to await page.goto
NewPage(r) ==
  /\ req[r].pc = "newPage"
  /\ IF ~IsOpen(BrowserOf(r)) THEN Catch(r, TargetClosed)
     ELSE req' = [req EXCEPT ![r].page = BrowserOf(r), ![r].pc = "goto"]
  /\ UNCHANGED <<extractionVars, puppeteer, chromium, browsers, browser>>

\* await page.goto and await page.waitForTimeout, up to await page.title()
\* (server.js and the serverless handler do not look at the title)
Goto(r) ==
  /\ req[r].pc = "goto"
  /\ IF ~IsOpen(req[r].page) THEN Catch(r, TargetClosed)
     ELSE IF req[r].fault = "goto" THEN Catch(r, NavigationTimeout)
     ELSE req' = [req EXCEPT ![r].pc = IF impl \in {"enhanced", "fixed"} THEN "title"
                                       ELSE "extract"]
  /\ UNCHANGED <<extractionVars, puppeteer, chromium, browsers, browser>>

\* const title = await page.title() and its test, up to await extractContactInfoFromPage(page)
Title(r) ==
  /\ req[r].pc = "title"
  /\ IF ~IsOpen(req[r].page) THEN Catch(r, TargetClosed)
     ELSE IF TitleNotFound(ChannelTitle(req[r].channelId)) THEN Catch(r, ChannelNotFound)
     ELSE req' = [req EXCEPT ![r].pc = "extract"]
  /\ UNCHANGED <<extractionVars, puppeteer, chromium, browsers, browser>>

\* the locals of an invocation once the extraction has returned: the drafts
\* with a finally block call res.json at once, the others go on to await
\* browser.close()
Extracted(i, locals, contacts) ==
  IF i \in {"server1", "fixed"}
  THEN [locals EXCEPT !.contacts = contacts,
                      !.sent = Append(@, RouteSucceeded(i, locals.channelId, contacts)),
                      !.pc = "finally"]
  ELSE [locals EXCEPT !.contacts = contacts, !.pc = "close"]

\* const contacts = await extractContactInfoFromPage(page) and what follows it
\* up to the next await
Extract(r) ==
  /\ req[r].pc = "extract"
  /\ IF ~IsOpen(req[r].page) THEN Catch(r, TargetClosed)
     ELSE IF impl # "handler" /\ HarvestThrows(ChannelPage(req[r].channelId).scripts)
          THEN Catch(r, ExtractionFailed)
     ELSE req' = [req EXCEPT
                    ![r] = Extracted(impl, @, RouteContacts(impl, ChannelPage(req[r].channelId)))]
  /\ UNCHANGED <<extractionVars, puppeteer, chromium, browsers, browser>>

\* a success path that responds before it awaits browser.close() inside the
\* same try: a close that throws reaches the catch block after the response
CloseAfterResponding(r) ==
  /\ req[r].pc = "close"
  /\ IF req[r].fault = "close"
     THEN /\ req' = [req EXCEPT
                       ![r].sent = Append(Append(@, RouteSucceeded(impl, req[r].channelId,
                                                                   req[r].contacts)),
                                          RouteFailed(impl, CloseFailed, req[r].channelId)),
                       ![r].pc = "responded"]
          /\ UNCHANGED browsers
     ELSE /\ browsers' = [browsers EXCEPT ![BrowserOf(r)].open = FALSE]
          /\ Send(r, RouteSucceeded(impl, req[r].channelId, req[r].contacts))
  /\ UNCHANGED <<extractionVars, puppeteer, chromium, browser>>

\* await browser.close() and res.json of the success path
Close(r) ==
  /\ req[r].pc = "close"
  /\ IF req[r].fault = "close"
     THEN Catch(r, CloseFailed) /\ UNCHANGED browsers
     ELSE /\ browsers' = [browsers EXCEPT ![BrowserOf(r)].open = FALSE]
          /\ Send(r, RouteSucceeded(impl, req[r].channelId, req[r].contacts))
  /\ UNCHANGED <<extractionVars, puppeteer, chromium, browser>>

\* the catch block after its await browser.close(): a close that throws is
\* logged, then the 500 response is sent
CatchClose(r) ==
  /\ req[r].pc = "catchClose"
  /\ browsers' = IF req[r].fault = "close" THEN browsers
                 ELSE [browsers EXCEPT ![BrowserOf(r)].open = FALSE]
  /\ Send(r, ScrapeFailed(req[r].error, req[r].channelId))
  /\ UNCHANGED <<extractionVars, puppeteer, chromium, browser>>

\* finally { if (browser) await browser.close() }: src/api/scrape-about.js
\* wraps the close in try/catch and logs a failure; src/server.js does not,
\* so a close that throws there rejects the promise of the handler, which
\* nothing awaits
Finally(r) ==
  /\ req[r].pc = "finally"
  /\ IF BrowserOf(r) = 0
     THEN req' = [req EXCEPT ![r].pc = "done"] /\ UNCHANGED browsers
     ELSE IF req[r].fault = "close"
          THEN /\ req' = [req EXCEPT ![r].pc = IF impl = "fixed" THEN "done" ELSE "rejected"]
               /\ UNCHANGED browsers
     ELSE /\ browsers' = [browsers EXCEPT ![BrowserOf(r)].open = FALSE]
          /\ req' = [req EXCEPT ![r].pc = "done"]
  /\ UNCHANGED <<extractionVars, puppeteer, chromium, browser>>

\* one scrape request served by any of the four drafts of the endpoint; the
\* drafts other than part_000 import puppeteer statically and let it find
\* its own executable
InitRoutes ==
  /\ impl \in RouteDrafts
  /\ page = [text |-> "", elements |-> <<>>, scripts |-> <<>>, domThrows |-> FALSE]
  /\ pc = "idle"
  /\ allLinks = <<>>
  /\ outcome = "pending"
  /\ result = NoResult
  /\ runs = <<>>
  /\ puppeteer \in BOOLEAN
  /\ chromium \in BOOLEAN
  /\ impl # "enhanced" => puppeteer /\ chromium
  /\ req \in [{"r1"} -> {NewRequest(c, f) : c \in ChannelIds, f \in Faults}]
  /\ browsers = <<>>
  /\ browser = [b \in {BrowserBinding(r) : r \in Requests} |-> 0]
  /\ outreach = <<>>

(***************************************************************************)
(* generatePersonalizedOutreach of src/api/generatePersonalizedOutreach.js  *)
(* :16-110.  channelData carries channelName, recentVideos, ownerName and   *)
(* openaiApiKey (Null stands for an absent property); envKey is             *)
(* process.env.OPENAI_API_KEY and reply is what the upstream call does:     *)
(* "rejected" when it throws, otherwise the content of its first choice.    *)
(* description only enters the prompt and is left out.                      *)
(***************************************************************************)
\* String.prototype.split(sep) for a one-character separator
RECURSIVE Split(_, _)
Split(s, sep) ==
  LET i == FindFirst(s, 1, {sep})
  IN  IF i > Len(s) THEN <<s>>
      ELSE <<SubSeq(s, 1, i - 1)>> \o Split(SubSeq(s, i + 1, Len(s)), sep)

\* Array.prototype.join
RECURSIVE Join(_, _)
Join(words, sep) ==
  IF words = <<>> THEN ""
  ELSE IF Len(words) = 1 THEN words[1]
  ELSE words[1] \o sep \o Join(Tail(words), sep)

\* slice(0, n) of an array, substring(0, n) of a string
Slice(s, n) == SubSeq(s, 1, IF Len(s) < n THEN Len(s) ELSE n)

\* the content of the first choice of the upstream reply
OutreachReplies ==
  { "rejected",
    "{\"subjectLine\":\"Your Dubai vlog approach\",\"firstLine\":\"Hey Sam, watched some of your recent videos\"}",
    "{\"subjectLine\":\"Your Dubai vlog approach\"}",
    "Sure! Here is your outreach:" }

\* JSON.parse(content) and the reads of parsed.subjectLine and parsed.firstLine
ParseContent(content) ==
  CASE content = "{\"subjectLine\":\"Your Dubai vlog approach\",\"firstLine\":\"Hey Sam, watched some of your recent videos\"}" ->
         [ok |-> TRUE, subjectLine |-> Str("Your Dubai vlog approach"),
          firstLine |-> Str("Hey Sam, watched some of your recent videos")]
    [] content = "{\"subjectLine\":\"Your Dubai vlog approach\"}" ->
         [ok |-> TRUE, subjectLine |-> Str("Your Dubai vlog approach"), firstLine |-> Null]
    [] OTHER -> [ok |-> FALSE, subjectLine |-> Null, firstLine |-> Null]

OutreachReturned(subjectLine, firstLine) ==
  [outcome |-> "returned", value |-> [subjectLine |-> subjectLine, firstLine |-> firstLine]]

\* the catch block: the templates read recentVideos[0].title, or channelName
\* when there is no video, and call split on it: a TypeError when it is absent
OutreachFallback(c) ==
  LET firstName == IF Truthy(c.ownerName) THEN c.ownerName.s
                   ELSE IF Truthy(c.channelName) THEN Split(c.channelName.s, " ")[1]
                   ELSE "there"
      hasVideos == Len(c.recentVideos) > 0
      title     == c.recentVideos[1].title
  IN  IF hasVideos
      THEN IF title.t # "str"
           THEN [outcome |-> "threw",
                 error |-> "Cannot read properties of undefined (reading 'split')"]
           ELSE OutreachReturned(
                  Slice("Your " \o Join(Slice(Split(title.s, " "), 2), " ") \o " video", 50),
                  "Hey " \o firstName \o ", watched your recent video about "
                    \o Join(Slice(Split(title.s, " "), 3), " ")
                    \o ", and noticed that you have a unique approach to your content...")
      ELSE IF c.channelName.t # "str"
           THEN [outcome |-> "threw",
                 error |-> "Cannot read properties of undefined (reading 'split')"]
           ELSE OutreachReturned(
                  Slice("Your " \o Split(c.channelName.s, " ")[1] \o " content", 50),
                  "Hey " \o firstName
                    \o ", came across your channel and noticed that you create interesting content in your niche...")

\* what the promise of generatePersonalizedOutreach(channelData) settles to
generatePersonalizedOutreach(c) ==
  LET apiKey == IF Truthy(c.openaiApiKey) THEN c.openaiApiKey ELSE c.envKey
      parsed == ParseContent(c.reply)
      orEmpty(v) == IF Truthy(v) THEN v.s ELSE ""
  IN  IF ~Truthy(apiKey) THEN OutreachReturned("", "")
      ELSE IF c.reply # "rejected" /\ parsed.ok
           THEN OutreachReturned(orEmpty(parsed.subjectLine), orEmpty(parsed.firstLine))
      ELSE OutreachFallback(c)

\* the channelData of a call: at most MaxVideos recent videos, the first of
\* which may lack its title
InitOutreach ==
  /\ impl = "enhanced"
  /\ page = [text |-> "", elements |-> <<>>, scripts |-> <<>>, domThrows |-> FALSE]
  /\ pc = "idle"
  /\ allLinks = <<>>
  /\ outcome = "pending"
  /\ result = NoResult
  /\ runs = <<>>
  /\ puppeteer = FALSE
  /\ chromium = FALSE
  /\ req = <<>>
  /\ browsers = <<>>
  /\ browser = <<>>
  /\ \E channelName \in {Null, Str(""), Str("Tech Tips Daily")},
        titles \in SeqsUpTo({Null, Str(""), Str("Dubai vlog tips and tricks"),
                             Str("Supercalifragilisticexpialidocious antidisestablishmentarianism explained")},
                            MaxVideos),
        ownerName \in {Null, Str(""), Str("Sam")},
        openaiApiKey \in {Null, Str("sk-param")},
        envKey \in {Null, Str("sk-env")},
        reply \in OutreachReplies :
       outreach = [ pc |-> "called",
                    channelData |-> [ channelName |-> channelName,
                                      recentVideos |-> [k \in 1..Len(titles) |-> [title |-> titles[k]]],
                                      ownerName |-> ownerName,
                                      openaiApiKey |-> openaiApiKey,
                                      envKey |-> envKey,
                                      reply |-> reply ],
                    settled |-> NoResult ]

\* the call runs to the settlement of its promise
GenerateOutreach ==
  /\ outreach.pc = "called"
  /\ outreach' = [outreach EXCEPT !.pc = "settled",
                                  !.settled = generatePersonalizedOutreach(outreach.channelData)]
  /\ UNCHANGED <<impl, page, pc, allLinks, outcome, result, runs,
                 puppeteer, chromium, req, browsers, browser>>

(***************************************************************************)
(* Specifications.                                                         *)
(***************************************************************************)
Next ==
  \/ EvaluateEnhanced
  \/ EvaluateServer1
  \/ PostProcessSocialLinks
  \/ EvaluateServer2
  \/ EvaluateHandler

\* link harvest and classification
Spec == InitLinks /\ [][Next]_vars

\* email extraction and business heuristic
SpecText == InitText /\ [][Next]_vars

\* host-based classification
SpecHosts == InitHosts /\ [][Next]_vars

\* the extraction called several times
NextRuns == Next \/ NextRun
SpecRuns == InitRuns /\ [][NextRuns]_vars

\* two scrape requests served concurrently
NextServe ==
  \E r \in Requests :
    \/ Receive(r)
    \/ FindChromium(r)
    \/ Launch(r)
    \/ NewPage(r)
    \/ Goto(r)
    \/ Title(r)
    \/ Extract(r)
    \/ Close(r)
    \/ CatchClose(r)
SpecServe == InitServe /\ [][NextServe]_vars

\* one scrape request, every draft of the endpoint
NextRoutes ==
  \E r \in DOMAIN req :
    \/ Receive(r)
    \/ FindChromium(r)
    \/ Launch(r)
    \/ NewPage(r)
    \/ Goto(r)
    \/ Title(r)
    \/ Extract(r)
    \/ Close(r)
    \/ CatchClose(r)
    \/ Finally(r)
SpecRoutes == InitRoutes /\ [][NextRoutes]_vars

\* one call of generatePersonalizedOutreach
SpecOutreach == InitOutreach /\ [][GenerateOutreach]_vars

(***************************************************************************)
(* Properties.                                                             *)
(***************************************************************************)
Returned(i) == outcome = "returned" /\ impl = i
Harvested(i) == impl = i /\ pc # "start" /\ outcome # "threw"

Elems(arr) == {arr[i] : i \in 1..Len(arr)}
NoDuplicates(arr) == \A i, j \in 1..Len(arr) : arr[i] = arr[j] => i = j

PlatformLabels == {PlatformRules[i].label : i \in 1..Len(PlatformRules)}

\* the label the running draft's classify gives to a link
LabelOf(i, href) ==
  CASE i = "enhanced" -> classify(href)
    [] i = "server1" -> classifyServer1(href)
    [] OTHER -> classifyServer2(href)

\* the earliest link of the harvested list that the draft labels L
HasLabelled(i, links, L) == \E k \in 1..Len(links) : Truthy(links[k]) /\ LabelOf(i, links[k]) = L
FirstLabelled(i, links, L) ==
  links[CHOOSE k \in 1..Len(links) :
          /\ Truthy(links[k]) /\ LabelOf(i, links[k]) = L
          /\ \A j \in 1..(k - 1) : ~(Truthy(links[j]) /\ LabelOf(i, links[j]) = L)]

\* C1: for every harvested link sequence and every platform label L, social[L]
\* (when present) is the earliest harvested link that classifies as L; a later
\* link of the same label never overwrites it.  Stated for the enhanced draft
\* and for the first server draft with its second pass over the container links.
C1_FirstWinsPerLabel ==
  \A i \in {"enhanced", "server1"} :
    Returned(i) =>
      \A L \in DOMAIN result.social :
        /\ HasLabelled(i, allLinks, L)
        /\ result.social[L] = FirstLabelled(i, allLinks, L)

\* the links handed to the categorisation by the enhanced draft
UniqueLinks == uniq(allLinks)

InSocial(v) == \E L \in DOMAIN result.social : result.social[L] = v
InWebsites(v) == InSeq(v, result.websites)
InOtherLinks(v) == InSeq(v, result.otherLinks)
\* dropped because an earlier link already holds the slot of its label
LaterDuplicate(v) ==
  /\ ~InSocial(v) /\ ~InWebsites(v) /\ ~InOtherLinks(v)
  /\ classify(v) \in DOMAIN result.social
\* dropped as a host-site / CDN link
DiscardedAsHostSite(v) ==
  /\ ~InSocial(v) /\ ~InWebsites(v) /\ ~InOtherLinks(v)
  /\ URLParse(v.s).ok /\ RuleMatches(IgnoreRule, HostOf(URLParse(v.s).hostname))
Outcomes(v) ==
  {o \in {"social", "websites", "otherLinks", "duplicate", "host-site"} :
     \/ o = "social" /\ InSocial(v)
     \/ o = "websites" /\ InWebsites(v)
     \/ o = "otherLinks" /\ InOtherLinks(v)
     \/ o = "duplicate" /\ LaterDuplicate(v)
     \/ o = "host-site" /\ DiscardedAsHostSite(v)}

C3_NeverRaises == impl = "enhanced" => outcome # "threw"

\* C3 failing input: an array block with a null element
C3_FailingInput == impl = "enhanced" /\ page.scripts = <<"[null]">> /\ outcome = "threw"

Unparseable(v) == ~URLParse(v.s).ok

BlockLinks(script) == sameAsLinks(jsonLd(<<script>>))

RECURSIVE BlockLinksInOrder(_)
BlockLinksInOrder(scripts) ==
  IF scripts = <<>> THEN <<>> ELSE BlockLinks(Head(scripts)) \o BlockLinksInOrder(Tail(scripts))

\* the part of the merged list that follows the anchor and container links
StructuredPart(links, els) ==
  SubSeq(links, Len(anchors(els)) + Len(externalLinks(els)) + 1, Len(links))

\* C5: blocks are parsed independently: the structured-data part of the merged
\* list is, block by block in document order, what each block yields alone, so
\* a block that fails to parse removes nothing of the blocks before or after it.
C5_BlocksParsedIndependently ==
  Harvested("enhanced") =>
    StructuredPart(allLinks, page.elements) = BlockLinksInOrder(page.scripts)

\* C5 witness: a block that fails to parse stands before a block whose links
\* are in the merged list
C5_Witness ==
  /\ Harvested("enhanced")
  /\ \E i, j \in 1..Len(page.scripts) :
       /\ i < j
       /\ JSONParse(page.scripts[i]).k = "fail"
       /\ BlockLinks(page.scripts[j]) # <<>>
       /\ Elems(BlockLinks(page.scripts[j])) \subseteq Elems(allLinks)

\* the platform-container links of a draft
PlatformLinksOf(i, els) == IF i = "enhanced" THEN externalLinks(els) ELSE socialMediaLinks(els)

\* C6: the merged list is the anchor links, then the platform-container links,
\* then the sameAs links; so a sameAs link holds a social slot only when no
\* anchor link and no platform-container link has that label.  Stated for the
\* enhanced draft and for the second server draft.
C6_HarvestOrder ==
  \A i \in {"enhanced", "server2"} :
    /\ Harvested(i) =>
         allLinks = anchors(page.elements) \o PlatformLinksOf(i, page.elements)
                      \o BlockLinksInOrder(page.scripts)
    /\ Returned(i) =>
         \A L \in DOMAIN result.social :
           HasLabelled(i, anchors(page.elements) \o PlatformLinksOf(i, page.elements), L)
             => InSeq(result.social[L], anchors(page.elements) \o PlatformLinksOf(i, page.elements))

\* C6 failing input: the second server draft on a page with an instagram anchor
\* outside the container and an instagram sameAs link
C6_FailingInput ==
  /\ Returned("server2")
  /\ HasLabelled("server2", anchors(page.elements), "instagram")
  /\ "instagram" \in DOMAIN result.social
  /\ ~InSeq(result.social["instagram"], anchors(page.elements))

Copies(arr, v) == Cardinality({i \in 1..Len(arr) : arr[i] = v})
FirstIndexOf(arr, v) == CHOOSE i \in 1..Len(arr) : arr[i] = v /\ \A j \in 1..(i - 1) : arr[j] # v

\* what C7 says of uniq(arr) apart from which strings are kept: nothing is
\* invented, the order is that of first occurrence, and uniq is idempotent
UniqOrderAndIdempotence(arr) ==
  LET U == uniq(arr)
  IN  /\ Elems(U) \subseteq Elems(arr)
      /\ \A i, j \in 1..Len(U) : i < j => FirstIndexOf(arr, U[i]) < FirstIndexOf(arr, U[j])
      /\ uniq(U) = U

\* C7 as stated: uniq keeps exactly one copy of every distinct string of the
\* merged list, at the position of its first occurrence, and is idempotent.
C7_UniqKeepsEveryString ==
  Harvested("enhanced") =>
    /\ \A v \in Elems(allLinks) : v.t = "str" => Copies(uniq(allLinks), v) = 1
    /\ UniqOrderAndIdempotence(allLinks)

\* C7 amended: uniq keeps exactly one copy of every distinct non-empty string
\* (and of every other truthy entry) of the merged list, at the position of its
\* first occurrence, drops the empty string and the other falsy entries,
\* compares by exact equality, and is idempotent.
C7_UniqKeepsEveryNonEmptyString ==
  Harvested("enhanced") =>
    /\ \A v \in Elems(allLinks) : Copies(uniq(allLinks), v) = IF Truthy(v) THEN 1 ELSE 0
    /\ UniqOrderAndIdempotence(allLinks)

\* C7 witness: the merged list repeats a link, holds an empty string, and holds
\* two links that differ only in the trailing slash; both of these are kept
C7_Witness ==
  /\ Harvested("enhanced")
  /\ \E v \in Elems(allLinks) : Copies(allLinks, v) > 1
  /\ InSeq(Str(""), allLinks)
  /\ InSeq(Str("https://example.com"), uniq(allLinks))
  /\ InSeq(Str("https://example.com/"), uniq(allLinks))

\* the addresses of the page text, lower-cased, as a set
AddressesOf(text) == {ToLowerCase(m) : m \in Elems(matchEmails(text))}
\* position in the text's matches of the first one equal to e but for case
FirstAppearance(text, e) ==
  LET ms == matchEmails(text)
  IN  CHOOSE i \in 1..Len(ms) :
        ToLowerCase(ms[i]) = ToLowerCase(e) /\ \A j \in 1..(i - 1) : ToLowerCase(ms[j]) # ToLowerCase(e)

\* C8: for a text with N addresses that are distinct case-insensitively,
\* emails has exactly N entries, all lower-cased, without duplicates, in order
\* of first appearance.  Stated for the enhanced draft and for the handler.
C8_EmailsLowercasedDistinct ==
  \A i \in {"enhanced", "handler"} :
    Returned(i) =>
      /\ Len(result.emails) = Cardinality(AddressesOf(page.text))
      /\ \A k \in 1..Len(result.emails) : result.emails[k].s = ToLowerCase(result.emails[k].s)
      /\ NoDuplicates(result.emails)
      /\ \A k, m \in 1..Len(result.emails) :
           k < m => FirstAppearance(page.text, result.emails[k].s)
                      < FirstAppearance(page.text, result.emails[m].s)

\* C8 failing input: the handler on the text "contact: a@b.com, also A@B.COM"
C8_FailingInput ==
  /\ Returned("handler")
  /\ page.text = "contact: a@b.com, also A@B.COM"
  /\ result.emails = <<Str("a@b.com"), Str("A@B.COM")>>

\* the four conditions of the heuristic, read off the page and the result
CondPhrase == hasBusinessText(page.text)
CondMailto == mailtoLinks(page.elements)
CondCaption == businessButtons(page.elements)
CondEmail == result.emails # <<>>

\* C9 as stated: the flag is true exactly when one of the four conditions holds.
C9_FlagIsAnyOfFour ==
  Returned("enhanced") =>
    (result.hasBusinessInquiry <=> (CondPhrase \/ CondMailto \/ CondCaption \/ CondEmail))

\* C9 amended: when the DOM queries of the heuristic complete, the flag is true
\* exactly when one of the four conditions holds; when they throw, the flag is
\* true exactly when an email was extracted.
C9_FlagIsAnyOfFourUnlessDomThrows ==
  Returned("enhanced") =>
    (result.hasBusinessInquiry <=>
       IF page.domThrows THEN CondEmail
       ELSE CondPhrase \/ CondMailto \/ CondCaption \/ CondEmail)

\* C9 witness: only the caption condition holds and the flag is true
C9_Witness ==
  /\ Returned("enhanced")
  /\ ~page.domThrows
  /\ CondCaption /\ ~CondPhrase /\ ~CondMailto /\ ~CondEmail
  /\ result.hasBusinessInquiry

\* C10: in every returned result a non-empty emails list implies
\* hasBusinessInquiry, on the normal path and on the fallback path.  Stated for
\* the enhanced draft and the two server drafts.
C10_EmailsImplyFlag ==
  \A i \in {"enhanced", "server1", "server2"} :
    Returned(i) => (result.emails # <<>> => result.hasBusinessInquiry)

\* C10 failing input: a server draft on a page with an address in the text and
\* no button, mailto anchor or container link
C10_FailingInput ==
  /\ impl \in {"server1", "server2"}
  /\ outcome = "returned"
  /\ page.text = "contact: a@b.com"
  /\ page.elements = <<>>
  /\ result.emails = <<Str("a@b.com")>>
  /\ ~result.hasBusinessInquiry

IsMailto(v) == StartsWith(v.s, "mailto:")

\* C11: a mailto: link anywhere in the link inventory (anchor links, container
\* links or sameAs links) sets hasBusinessInquiry, also when no phrase, caption
\* or email does.
C11_MailtoAnywhereSetsFlag ==
  Returned("enhanced") =>
    ((\E k \in 1..Len(allLinks) : IsMailto(allLinks[k])) => result.hasBusinessInquiry)

\* C11 failing input: the only mailto: link of the page is a sameAs value
C11_FailingInput ==
  /\ Returned("enhanced")
  /\ page.elements = <<>>
  /\ page.scripts = <<"{\"sameAs\":\"mailto:biz@example.com\"}">>
  /\ allLinks = <<Str("mailto:biz@example.com")>>
  /\ ~result.hasBusinessInquiry

\* the hostname a draft's classify looks at
ParsedHost(v) == HostOf(URLParse(v.s).hostname)
Parseable(v) == URLParse(v.s).ok

\* C12: a link is labelled twitter only when its hostname contains twitter.com
\* or is exactly x.com; wix.com and netflix.com links are never labelled twitter
\* and end in websites.  Stated for the enhanced draft and the two server drafts.
C12_TwitterOnlyForTwitterHosts ==
  \A i \in {"enhanced", "server1", "server2"} :
    Returned(i) =>
      /\ \A v \in Elems(allLinks) :
           (Truthy(v) /\ Parseable(v)) =>
             /\ LabelOf(i, v) = "twitter" =>
                  (Includes(ParsedHost(v), "twitter.com") \/ ParsedHost(v) = "x.com")
             /\ ParsedHost(v) \in {"wix.com", "netflix.com"} =>
                  (LabelOf(i, v) = "website" /\ InWebsites(v) /\ ~InSocial(v))
      /\ "twitter" \in DOMAIN result.social =>
           LET host == ParsedHost(result.social["twitter"])
           IN  Includes(host, "twitter.com") \/ host = "x.com"

\* C12 failing input: a server draft on a page whose only link is a wix.com anchor
C12_FailingInput ==
  /\ impl \in {"server1", "server2"}
  /\ outcome = "returned"
  /\ page.elements = <<Anchor("https://www.wix.com/site", "", "none")>>
  /\ "twitter" \in DOMAIN result.social
  /\ result.social["twitter"] = Str("https://www.wix.com/site")

\* the rules of the enhanced table that match a hostname, the ignore rule included
MatchingRules(host) ==
  {PlatformRules[i].label : i \in {j \in 1..Len(PlatformRules) : RuleMatches(PlatformRules[j], host)}}
    \cup (IF RuleMatches(IgnoreRule, host) THEN {"ignore"} ELSE {})

\* the label when the rules are tested in the opposite order
LastMatch(rules, ignore, host) ==
  IF RuleMatches(ignore, host) THEN "ignore"
  ELSE IF \E i \in 1..Len(rules) : RuleMatches(rules[i], host)
  THEN rules[CHOOSE i \in 1..Len(rules) :
               /\ RuleMatches(rules[i], host)
               /\ \A j \in (i + 1)..Len(rules) : ~RuleMatches(rules[j], host)].label
  ELSE "website"

\* C13: for every hostname at most one rule of the table matches (platform
\* rules and the host-site ignore rule together), so the label does not depend
\* on the order in which the rules are tested.
C13_RulesMutuallyExclusive ==
  Harvested("enhanced") =>
    \A v \in Elems(UniqueLinks) :
      Parseable(v) =>
        /\ Cardinality(MatchingRules(ParsedHost(v))) <= 1
        /\ classify(v) = LastMatch(PlatformRules, IgnoreRule, ParsedHost(v))

\* C13 failing input: a hostname that contains the patterns of two rules
C13_FailingInput ==
  /\ Returned("enhanced")
  /\ page.elements = <<Anchor("https://twitter.com.instagram.com/", "", "none")>>
  /\ MatchingRules("twitter.com.instagram.com") = {"instagram", "twitter"}
  /\ DOMAIN result.social = {"instagram"}

\* C14: every link whose hostname matches a host-site pattern is in none of
\* social, websites and otherLinks.
C14_HostSiteLinksDiscarded ==
  Returned("enhanced") =>
    \A v \in Elems(UniqueLinks) :
      (Parseable(v) /\ RuleMatches(IgnoreRule, ParsedHost(v))) =>
        (~InSocial(v) /\ ~InWebsites(v) /\ ~InOtherLinks(v))

\* C14 failing input: a youtube.com host whose name also holds a platform pattern
C14_FailingInput ==
  /\ Returned("enhanced")
  /\ page.elements = <<Anchor("https://instagram.com.youtube.com/", "", "none")>>
  /\ result.social = Put(EmptyMap, "instagram", Str("https://instagram.com.youtube.com/"))

\* C15: the label depends only on the parsed hostname: two parseable links
\* with the same hostname get the same label, every social slot holds a link
\* whose hostname has that label, and https://example.com/?ref=instagram.com is
\* a website.  Stated for the enhanced draft and for the first server draft
\* with its second pass.
C15_HostnameDecidesLabel ==
  \A i \in {"enhanced", "server1"} :
    Returned(i) =>
      /\ \A v, w \in Elems(allLinks) :
           (Truthy(v) /\ Truthy(w) /\ Parseable(v) /\ Parseable(w) /\ ParsedHost(v) = ParsedHost(w))
             => (LabelOf(i, v) = LabelOf(i, w) /\ (InSocial(v) => ~InWebsites(w)))
      /\ \A L \in DOMAIN result.social : LabelOf(i, result.social[L]) = L
      /\ InSeq(Str("https://example.com/?ref=instagram.com"), allLinks) =>
           /\ InWebsites(Str("https://example.com/?ref=instagram.com"))
           /\ ~InSocial(Str("https://example.com/?ref=instagram.com"))

\* C15 failing input: the first server draft on a page whose container holds
\* https://example.com/?ref=instagram.com
C15_FailingInput ==
  /\ Returned("server1")
  /\ page.elements = <<Anchor("https://example.com/?ref=instagram.com", "", "wiz")>>
  /\ result.social = Put(EmptyMap, "instagram", Str("https://example.com/?ref=instagram.com"))

\* C16: otherLinks holds only harvested links that failed URL parsing, in
\* first-seen order and without duplicates.  Stated for the enhanced draft and
\* for the first server draft with its second pass.
C16_OtherLinksOnlyUnparseable ==
  \A i \in {"enhanced", "server1"} :
    Returned(i) =>
      /\ \A k \in 1..Len(result.otherLinks) :
           InSeq(result.otherLinks[k], allLinks) /\ Unparseable(result.otherLinks[k])
      /\ NoDuplicates(result.otherLinks)
      /\ \A k, m \in 1..Len(result.otherLinks) :
           k < m => FirstIndexOf(allLinks, result.otherLinks[k])
                      < FirstIndexOf(allLinks, result.otherLinks[m])

\* C16 failing input: the first server draft on a page whose container holds a
\* parseable link of no platform
C16_FailingInput ==
  /\ Returned("server1")
  /\ page.elements = <<Anchor("https://example.com/about", "", "wiz")>>
  /\ result.websites = <<Str("https://example.com/about")>>
  /\ result.otherLinks = <<Str("https://example.com/about")>>

RemoveAt(arr, k) == SubSeq(arr, 1, k - 1) \o SubSeq(arr, k + 1, Len(arr))

\* the pages that differ from p by one anchor or one structured-data block
Neighbours(p) ==
  {[p EXCEPT !.elements = RemoveAt(p.elements, k)] : k \in 1..Len(p.elements)}
    \cup {[p EXCEPT !.scripts = RemoveAt(p.scripts, k)] : k \in 1..Len(p.scripts)}

\* two results agree on every field but the counts
SameContacts(r1, r2) ==
  /\ r1.emails = r2.emails
  /\ r1.social = r2.social
  /\ r1.websites = r2.websites
  /\ r1.otherLinks = r2.otherLinks
  /\ r1.hasBusinessInquiry = r2.hasBusinessInquiry

\* C17 as stated: socialLinksFound is the number of labels in social, and two
\* inputs with the same emails, social, websites, otherLinks and flag have the
\* same totalLinksFound (compared here for pages that differ by one link source).
C17_CountsDerivedFromFields ==
  Returned("enhanced") =>
    /\ result.socialLinksFound = Cardinality(DOMAIN result.social)
    /\ \A p2 \in Neighbours(page) :
         (~HarvestThrows(p2.scripts) /\ SameContacts(EvaluatedEnhanced(p2), result))
           => EvaluatedEnhanced(p2).totalLinksFound = result.totalLinksFound

\* the deduplicated links that reach no field of the result
DiscardedLinks == {v \in Elems(UniqueLinks) : DiscardedAsHostSite(v) \/ LaterDuplicate(v)}

\* C17 amended: socialLinksFound is the number of labels in social, and
\* totalLinksFound is the number of distinct non-empty harvested links: the
\* links of social, websites and otherLinks together with those discarded as
\* host-site links or as later links of a filled label.
C17_CountsOfDistinctLinks ==
  Returned("enhanced") =>
    /\ result.socialLinksFound = Cardinality(DOMAIN result.social)
    /\ result.totalLinksFound = Cardinality({v \in Elems(allLinks) : Truthy(v)})
    /\ result.totalLinksFound =
         result.socialLinksFound + Len(result.websites) + Len(result.otherLinks)
           + Cardinality(DiscardedLinks)

\* C17 witness: a result whose totalLinksFound exceeds the sizes of its fields
C17_Witness ==
  /\ Returned("enhanced")
  /\ result.socialLinksFound >= 1
  /\ Len(result.websites) >= 1
  /\ result.totalLinksFound >
       result.socialLinksFound + Len(result.websites) + Len(result.otherLinks)

EmptyResult ==
  [ emails |-> <<>>,
    social |-> EmptyMap,
    websites |-> <<>>,
    otherLinks |-> <<>>,
    hasBusinessInquiry |-> FALSE,
    totalLinksFound |-> 0,
    socialLinksFound |-> 0 ]

\* empty page text and no link in any of the three sources
EmptyInput == page.text = "" /\ MergedLinks("enhanced", page) = <<>>

\* C19 as stated: with empty page text and no links in any of the three
\* sources the result is all-empty, hasBusinessInquiry = false included.
C19_EmptyInputEmptyResult ==
  (Returned("enhanced") /\ EmptyInput) => result = EmptyResult

\* C19 amended: with empty page text, no links in any of the three sources and
\* no button or anchor caption that holds "business", "inquiry" or "contact",
\* the result is all-empty.  (The innerText of an element that is not rendered
\* is its textContent, which document.body.innerText leaves out, so a caption
\* can be present while the page text is empty.)
C19_EmptyInputNoCaptionEmptyResult ==
  (Returned("enhanced") /\ EmptyInput /\ ~businessButtons(page.elements))
    => result = EmptyResult

\* C19 witness: an empty page text, a button of no business meaning, no links,
\* and the all-empty result
C19_Witness ==
  /\ Returned("enhanced")
  /\ EmptyInput
  /\ page.elements = <<Button("Subscribe")>>
  /\ result = EmptyResult

AloneResponse(channelId, fault) ==
  IF channelId = "" THEN MissingChannelId
  ELSE IF ~puppeteer THEN PuppeteerUnavailable(channelId)
  ELSE IF ~chromium THEN ScrapeFailed(ChromiumNotFound, channelId)
  ELSE IF fault = "launch" THEN ScrapeFailed(LaunchFailed, channelId)
  ELSE IF fault = "goto" THEN ScrapeFailed(NavigationTimeout, channelId)
  ELSE IF TitleNotFound(ChannelTitle(channelId)) THEN ScrapeFailed(ChannelNotFound, channelId)
  ELSE IF HarvestThrows(ChannelPage(channelId).scripts) THEN ScrapeFailed(ExtractionFailed, channelId)
  ELSE IF fault = "close" THEN ScrapeFailed(CloseFailed, channelId)
  ELSE ScrapeSucceeded(channelId, EvaluatedEnhanced(ChannelPage(channelId)))

\* C20: under every interleaving of two scrape requests each response is the
\* response the request produces when it is served alone, and no browser
\* handle is shared: two invocations never hold the same browser, and the page
\* of an invocation belongs to its own browser.
C20_RequestsDoNotInterfere ==
  /\ \A r \in Requests :
       /\ req[r].pc = "responded" =>
            req[r].sent = <<AloneResponse(req[r].channelId, req[r].fault)>>
       /\ req[r].page # 0 => req[r].page = BrowserOf(r)
  /\ \A r1, r2 \in Requests :
       (r1 # r2 /\ BrowserOf(r1) # 0) => BrowserOf(r1) # BrowserOf(r2)

\* C20 witness: r1 launched its browser before r2 did, r2 has already been
\* answered with its own contacts while r1, holding other contacts, has not
\* yet closed its browser
C20_Witness ==
  /\ req["r1"].channelId = "UCa" /\ req["r2"].channelId = "UCb"
  /\ BrowserOf("r1") = 1 /\ BrowserOf("r2") = 2
  /\ req["r1"].pc = "close" /\ IsOpen(1)
  /\ req["r1"].contacts = EvaluatedEnhanced(ChannelPage("UCa"))
  /\ req["r2"].pc = "responded"
  /\ req["r2"].sent = <<ScrapeSucceeded("UCb", EvaluatedEnhanced(ChannelPage("UCb")))>>
  /\ req["r1"].contacts.social # req["r2"].sent[1].body.social

\* the invocation of a request has ended: its response is its last act, its
\* finally block has run, or its promise was rejected out of the finally block
Terminal(r) == req[r].pc \in {"responded", "done", "rejected"}

\* the body of a failure response: success false and every contact field empty
IsFailureBody(body) ==
  /\ {"success", "emails", "social", "websites", "otherLinks", "hasBusinessInquiry"}
       \subseteq DOMAIN body
  /\ body.success = FALSE
  /\ body.emails = <<>>
  /\ body.social = EmptyMap
  /\ body.websites = <<>>
  /\ body.otherLinks = <<>>
  /\ body.hasBusinessInquiry = FALSE

\* C21: every upstream failure of a scrape request (503 or 500) is answered
\* with success = false, emails = [], social = {}, websites = [],
\* otherLinks = [] and hasBusinessInquiry = false, and no invocation ends in an
\* unhandled fault.  Stated for the drafts the claim cites: part_000 and the
\* route of src/server.js.
C21_FailureResponseIsEmptyResult ==
  \A r \in DOMAIN req :
    impl \in {"enhanced", "server1"} =>
      /\ req[r].pc # "rejected"
      /\ \A k \in 1..Len(req[r].sent) :
           req[r].sent[k].status \in {500, 503} => IsFailureBody(req[r].sent[k].body)

\* C21 failing input: the route of src/server.js when the navigation times out
C21_FailingInput ==
  /\ impl = "server1"
  /\ req["r1"].channelId = "UCa"
  /\ req["r1"].fault = "goto"
  /\ req["r1"].sent = <<Response(500, [error |-> NavigationTimeout])>>

\* the same requests on part_000: the 500 response carries the empty result
C21_EnhancedCompliant ==
  \A r \in DOMAIN req :
    impl = "enhanced" =>
      /\ req[r].pc # "rejected"
      /\ \A k \in 1..Len(req[r].sent) :
           req[r].sent[k].status \in {500, 503} => IsFailureBody(req[r].sent[k].body)

\* no API credential is configured for the call
NoCredential(c) == ~Truthy(c.openaiApiKey) /\ ~Truthy(c.envKey)

\* the call as it settles when a credential is configured and the upstream
\* call is rejected
WithFailedUpstream(c) == [c EXCEPT !.openaiApiKey = Str("sk-param"), !.reply = "rejected"]

\* C22: without an API credential generatePersonalizedOutreach returns the
\* templated fallback derived from the first recent-video title and the first
\* name, the same value it returns when the upstream call fails.
C22_NoCredentialReturnsFallback ==
  (outreach.pc = "settled" /\ NoCredential(outreach.channelData)) =>
    outreach.settled = generatePersonalizedOutreach(WithFailedUpstream(outreach.channelData))

\* C22 failing input: a channel with a titled recent video and an owner name,
\* no credential: both strings are empty
C22_FailingInput ==
  /\ outreach.pc = "settled"
  /\ outreach.channelData.channelName = Str("Tech Tips Daily")
  /\ outreach.channelData.recentVideos = <<[title |-> Str("Dubai vlog tips and tricks")]>>
  /\ outreach.channelData.ownerName = Str("Sam")
  /\ NoCredential(outreach.channelData)
  /\ outreach.settled = OutreachReturned("", "")
  /\ generatePersonalizedOutreach(WithFailedUpstream(outreach.channelData))
       = OutreachReturned("Your Dubai vlog video",
           "Hey Sam, watched your recent video about Dubai vlog tips, and noticed that you have a unique approach to your content...")

\* the upstream call of a call with a credential failed or gave content that
\* is not the JSON asked for
UpstreamFailed(c) ==
  /\ ~NoCredential(c)
  /\ c.reply = "rejected" \/ ~ParseContent(c.reply).ok

\* C23: a failed or unparseable upstream call ends with a returned
\* {subjectLine, firstLine} for every channelData, never with a thrown error
\* or a rejected promise.
C23_UpstreamFailureNeverPropagates ==
  (outreach.pc = "settled" /\ UpstreamFailed(outreach.channelData)) =>
    /\ outreach.settled.outcome = "returned"
    /\ DOMAIN outreach.settled.value = {"subjectLine", "firstLine"}

\* C23 failing inputs: no channelName and no recent video, and a first recent
\* video without a title; the promise is rejected with a TypeError
C23_FailingInput ==
  /\ outreach.pc = "settled"
  /\ UpstreamFailed(outreach.channelData)
  /\ outreach.channelData.channelName = Null
  /\ outreach.channelData.recentVideos = <<>>
  /\ outreach.settled.outcome = "threw"

C23_FailingInputUntitledVideo ==
  /\ outreach.pc = "settled"
  /\ UpstreamFailed(outreach.channelData)
  /\ outreach.channelData.channelName = Str("Tech Tips Daily")
  /\ outreach.channelData.recentVideos = <<[title |-> Null]>>
  /\ outreach.settled.outcome = "threw"

\* with a channelName or a titled first video the fallback is returned, cut
\* to 50 characters
C23_TitledFallbackReturned ==
  /\ outreach.pc = "settled"
  /\ UpstreamFailed(outreach.channelData)
  /\ outreach.channelData.recentVideos
       = <<[title |-> Str("Supercalifragilisticexpialidocious antidisestablishmentarianism explained")]>>
  /\ outreach.settled.outcome = "returned"
  /\ outreach.settled.value.subjectLine = "Your Supercalifragilisticexpialidocious antidisest"

\* the records of the parsed blocks in document order: a record block is one
\* record, an array block is its elements
RECURSIVE RecordsInOrder(_)
RecordsInOrder(scripts) ==
  IF scripts = <<>> THEN <<>>
  ELSE LET o == JSONParse(Head(scripts))
       IN  (IF o.k = "rec" THEN <<o>> ELSE IF o.k = "arr" THEN o.items ELSE <<>>)
             \o RecordsInOrder(Tail(scripts))

RECURSIVE Flatten(_)
Flatten(seqs) == IF seqs = <<>> THEN <<>> ELSE Head(seqs) \o Flatten(Tail(seqs))

\* the sameAs part of the merged list of the enhanced draft and of the first
\* server draft
SameAsPart ==
  IF impl = "enhanced" THEN StructuredPart(allLinks, page.elements)
  ELSE SubSeq(allLinks, Len(anchors(page.elements)) + 1, Len(allLinks))

\* C24 as stated: every record contributes its sameAs, a single value as that
\* one link and a list as its elements in list order, records in document
\* order, whether they are blocks or elements of an array block.
C24_SameAsContributesAsWritten ==
  (Harvested("enhanced") \/ Harvested("server1")) =>
    LET recs == RecordsInOrder(page.scripts)
    IN  SameAsPart = Flatten([k \in 1..Len(recs) |-> recs[k].sameAs.vs])

\* C24: every record contributes its sameAs in document order, at both
\* nesting levels alike: a list contributes each of its elements in list
\* order, empty ones too; a single value contributes that one link unless it
\* is falsy (the empty string), in which case it contributes nothing.
C24_TruthySameAsContributes ==
  (Harvested("enhanced") \/ Harvested("server1")) =>
    LET recs == RecordsInOrder(page.scripts)
        contribution(sa) ==
          IF sa.k = "one" /\ ~Truthy(sa.vs[1]) THEN <<>> ELSE sa.vs
    IN  SameAsPart = Flatten([k \in 1..Len(recs) |-> contribution(recs[k].sameAs)])

\* C24 witness: an array block with a single value and a list, then an empty
\* single value, then a list holding an empty string
C24_Witness ==
  /\ Harvested("server1")
  /\ page.scripts = << "[{\"sameAs\":\"https://instagram.com/w\"},{\"name\":\"n\"},{\"sameAs\":[\"https://example.com/\"]}]",
                       "{\"sameAs\":\"\"}",
                       "{\"sameAs\":[\"https://instagr.am/z\",\"\",7]}" >>
  /\ SameAsPart = << Str("https://instagram.com/w"), Str("https://example.com/"),
                     Str("https://instagr.am/z"), Str(""), Num("7") >>

\* C25: when the invocation of a scrape request has ended, a browser it
\* launched has been closed, on the success path and on every failure path
\* after the launch, unless close itself failed; and a response has been sent
\* even when close failed.  (Every invocation runs to its end: see C26.)
C25_LaunchedBrowserIsClosed ==
  \A r \in DOMAIN req :
    Terminal(r) =>
      /\ (BrowserOf(r) # 0 /\ req[r].fault # "close") => ~IsOpen(BrowserOf(r))
      /\ req[r].fault = "close" => req[r].sent # <<>>

\* C25 failing input: the serverless handler when the navigation times out:
\* the 500 response is sent and the browser is still open
C25_FailingInput ==
  /\ impl = "handler"
  /\ req["r1"].fault = "goto"
  /\ req["r1"].pc = "responded"
  /\ req["r1"].sent = <<Response(500, [error |-> "Scraping failed", details |-> NavigationTimeout])>>
  /\ IsOpen(BrowserOf("r1"))

\* the three routes close the browser on every path
C25_RoutesCloseTheBrowser ==
  \A r \in DOMAIN req :
    (impl # "handler" /\ Terminal(r)) =>
      /\ (BrowserOf(r) # 0 /\ req[r].fault # "close") => ~IsOpen(BrowserOf(r))
      /\ req[r].fault = "close" => req[r].sent # <<>>

\* the awaits of the handlers: an invocation that stands at one of them is
\* resumed when the awaited call settles
Awaits ==
  {"received", "importFs", "launch", "newPage", "goto", "title", "extract", "close",
   "catchClose", "finally"}

\* C26: every scrape request is answered exactly once on every path: no
\* invocation ever holds a second response, an invocation that has ended has
\* sent exactly one, and an invocation that has not ended stands at an await
\* of its handler, so it never stops short of its response.
C26_ExactlyOneResponse ==
  \A r \in DOMAIN req :
    /\ Len(req[r].sent) <= 1
    /\ Terminal(r) => Len(req[r].sent) = 1
    /\ ~Terminal(r) => req[r].pc \in Awaits
    /\ req[r].pc \in {"finally", "done", "rejected"} => Len(req[r].sent) = 1

\* C26 witness: close() threw after a successful extraction and the request
\* was answered once, with the 500 response of the catch block
C26_Witness ==
  /\ impl = "enhanced"
  /\ req["r1"].fault = "close"
  /\ req["r1"].contacts # NoResult
  /\ req["r1"].pc = "responded"
  /\ req["r1"].sent = <<ScrapeFailed(CloseFailed, req["r1"].channelId)>>

\* the same failure in the drafts that close in finally: the 200 response
\* stays the only one
C26_WitnessFinally ==
  /\ impl \in {"server1", "fixed"}
  /\ req["r1"].fault = "close"
  /\ req["r1"].pc \in {"done", "rejected"}
  /\ Len(req["r1"].sent) = 1
  /\ req["r1"].sent[1].status = 200

====
